---- MODULE Spec2Model ----
(***************************************************************************)
(* Reddit scraping + cleaning pipeline (src/main.py).                      *)
(*                                                                         *)
(* One run of main(): get_reddit, fetch_data (the subreddit.top listing,   *)
(* the date filter, the top-N selection, fetch_comments per selected       *)
(* post), clean_data (classify, the two merges, context, formatting) and   *)
(* the export.  The platform (the subreddit's submissions and their        *)
(* comment forests), the environment (.env) and config.json are inputs.    *)
(***************************************************************************)
EXTENDS Integers, Sequences, FiniteSets, TLC

VARIABLES
    env,          \* os.environ after load_dotenv(): credential name -> value
    CONFIG,       \* CONFIG["reddit"] as loaded from config.json
    platform,     \* what subreddit.top(time_filter="all") yields, in order
    pc,           \* position of the run inside main()
    error,        \* the exception that ended the run, or None
    start,        \* fetch_data: parsed start (ticks since epoch)
    end,          \* fetch_data: parsed end
    top_idx,      \* fetch_data: next submission of the listing
    posts,        \* fetch_data: posts list
    comments,     \* fetch_data: comments list
    sel_idx,      \* fetch_data: next post of `for post in posts`
    posts_df,     \* main / clean_data: posts_df
    comments_df,  \* main / clean_data: comments_df
    final_df,     \* clean_data's return value
    output_file,  \* the files written by to_excel (none before it runs)
    requests      \* number of requests made to the platform so far

vars == <<env, CONFIG, platform, pc, error, start, end, top_idx, posts,
          comments, sel_idx, posts_df, comments_df, final_df, output_file,
          requests>>

-----------------------------------------------------------------------------
(* Bounds of the model *)

\* most nodes in one submission's comment forest
MaxNodes == 4
\* most submissions in the listing when dates and scores vary
MaxPosts == 2
\* calendar days covered by the timestamps: 0 .. NumDays-1
NumDays == 3
\* instants distinguished inside one calendar day (0 is midnight)
TicksPerDay == 2
\* scores range over 1 .. MaxScore
MaxScore == 2
\* positive values of top_post_number range over 1 .. MaxTop
MaxTop == 2

-----------------------------------------------------------------------------
(* Python values *)

\* Python's None
None == "<None>"
\* pandas' missing value (the right side of a left merge without a match)
NaN == "<NaN>"

\* Series.astype(str): None becomes the string "None", a str stays as it is
astype_str(v) == IF v = None THEN "None" ELSE v

\* Series.fillna("")
fillna(v) == IF v = NaN THEN "" ELSE v

\* the calendar day (UTC) of a timestamp: .dt.strftime("%d-%m-%Y")
strftime_day(t) == t \div TicksPerDay

\* datetime.strptime(s, "%Y-%m-%d").replace(tzinfo=utc): midnight of the day
strptime(day) == day * TicksPerDay

-----------------------------------------------------------------------------
(* The platform: submissions and their comment forests.                    *)
(* A forest of n nodes is [n, par]: par[i] = 0 for a top-level comment,    *)
(* else the node replied to; a node's replies are ordered by index.        *)

Forests(k) ==
    UNION { { [n |-> m, par |-> p] :
                p \in { q \in [1..m -> 0..(m-1)] : \A i \in 1..m : q[i] < i } }
            : m \in 0..k }

PostId(k) == "p" \o ToString(k)
CommentId(pid, i) == "c" \o ToString(i) \o pid

\* the praw Comment object of node i of submission sub
Comment(sub, i) ==
    [ node        |-> i,
      id          |-> CommentId(sub.id, i),
      body        |-> "body_" \o CommentId(sub.id, i),
      created_utc |-> sub.created_utc ]

\* comment.replies (x = node) and submission.comments (x = 0), in order
RECURSIVE RepliesFrom(_, _, _)
RepliesFrom(sub, x, i) ==
    IF i > sub.forest.n THEN <<>>
    ELSE (IF sub.forest.par[i] = x THEN <<Comment(sub, i)>> ELSE <<>>)
         \o RepliesFrom(sub, x, i + 1)

Replies(sub, x) == RepliesFrom(sub, x, 1)

\* reddit.submission(id=...)
RedditSubmission(id) ==
    CHOOSE s \in { platform[i] : i \in 1..Len(platform) } : s.id = id

-----------------------------------------------------------------------------
(* fetch_comments *)

RECURSIVE walk(_, _, _), walk_replies(_, _, _)

\* walk with the record appended after the replies instead of before them
walk_postorder(sub, comment, parent_id) ==
    walk_replies(sub, Replies(sub, comment.node), comment.id)
    \o << [ comment_id  |-> comment.id,
            post_id     |-> sub.id,
            parent_id   |-> parent_id,
            body        |-> comment.body,
            created_utc |-> comment.created_utc ] >>

\* walk without the descent into comment.replies
walk_no_replies(sub, comment, parent_id) ==
    << [ comment_id  |-> comment.id,
         post_id     |-> sub.id,
         parent_id   |-> parent_id,
         body        |-> comment.body,
         created_utc |-> comment.created_utc ] >>

\* def walk(comment, parent_id=None): append the record, then the replies
walk(sub, comment, parent_id) ==
    << [ comment_id  |-> comment.id,
         post_id     |-> sub.id,
         parent_id   |-> parent_id,
         body        |-> comment.body,
         created_utc |-> comment.created_utc ] >>
    \o walk_replies(sub, Replies(sub, comment.node), comment.id)

\* for reply in comment.replies: walk(reply, comment.id)
walk_replies(sub, replies, parent_id) ==
    IF replies = <<>> THEN <<>>
    ELSE walk(sub, Head(replies), parent_id)
         \o walk_replies(sub, Tail(replies), parent_id)

\* for top_comment in submission.comments: walk(top_comment)
fetch_comments(sub) == walk_replies(sub, Replies(sub, 0), None)

-----------------------------------------------------------------------------
(* get_reddit *)

Credentials == {"client_id", "client_secret", "user_agent"}

\* Python truthiness of os.getenv(...): None and "" are falsy
Truthy(v) == v # None /\ v # ""

\* all([client_id, client_secret, user_agent])
all_credentials(e) == \A c \in Credentials : Truthy(e[c])

-----------------------------------------------------------------------------
(* fetch_data *)

\* rconf[...] / strptime(...) of lines 85-88, in order: the exception raised,
\* or None
config_error(rconf) ==
    IF rconf.subreddit_name = None THEN "KeyError: subreddit_name"
    ELSE IF rconf.start_date.kind = "missing" THEN "KeyError: start_date"
    ELSE IF rconf.start_date.kind = "malformed" THEN "ValueError: strptime"
    ELSE IF rconf.end_date.kind = "missing" THEN "KeyError: end_date"
    ELSE IF rconf.end_date.kind = "malformed" THEN "ValueError: strptime"
    ELSE None

\* a filter that lets every submission through
in_range_always(s, created, e) == TRUE

\* not (start <= created <= end) is what skips a submission
in_range(s, created, e) == s <= created /\ created <= e

\* the dict appended to posts
post_record(submission) ==
    [ post_id     |-> submission.id,
      self_text   |-> submission.selftext,
      created_utc |-> submission.created_utc,
      score       |-> submission.score ]

\* sorted(posts, key=score, reverse=True): stable, equal scores keep their order
RECURSIVE insert_desc(_, _)
insert_desc(sorted_posts, p) ==
    IF sorted_posts = <<>> THEN <<p>>
    ELSE IF Head(sorted_posts).score >= p.score
         THEN <<Head(sorted_posts)>> \o insert_desc(Tail(sorted_posts), p)
         ELSE <<p>> \o sorted_posts

RECURSIVE sorted_by_score(_)
sorted_by_score(ps) ==
    IF ps = <<>> THEN <<>>
    ELSE insert_desc(sorted_by_score(SubSeq(ps, 1, Len(ps) - 1)), ps[Len(ps)])

\* Python's s[:n] for an int n (a negative n counts from the end)
slice_to(s, n) ==
    LET stop == IF n >= 0 THEN (IF n < Len(s) THEN n ELSE Len(s))
                ELSE (IF Len(s) + n > 0 THEN Len(s) + n ELSE 0)
    IN  SubSeq(s, 1, stop)

\* sorted(posts, ...)[:rconf["top_post_number"]]
select_top(ps, n) == slice_to(sorted_by_score(ps), n)

\* DataFrame.empty
empty(df) == df = <<>>

-----------------------------------------------------------------------------
(* clean_data *)

\* classify whose last line returns "REPLY"
classify_no_fallback(row, post_ids, comment_ids) ==
    IF row.parent_id \in post_ids THEN "COMMENT" ELSE "REPLY"

\* def classify(row), with the post_ids and comment_ids it closes over
classify(row, post_ids, comment_ids) ==
    IF row.parent_id \in post_ids THEN "COMMENT"
    ELSE IF row.parent_id \in comment_ids THEN "REPLY"
    ELSE "COMMENT"

\* comments_df[col] = comments_df[col].astype(str) for the three id columns
astype_ids(cdf) ==
    [ k \in 1..Len(cdf) |->
        [ cdf[k] EXCEPT !.post_id    = astype_str(@),
                        !.comment_id = astype_str(@),
                        !.parent_id  = astype_str(@) ] ]

\* comments_df.merge(posts_df[["post_id", "self_text"]], on="post_id", how="left")
RECURSIVE merge_posts(_, _)
merge_posts(cdf, pdf) ==
    IF cdf = <<>> THEN <<>>
    ELSE LET row     == Head(cdf)
             hit(p)  == p.post_id = row.post_id
             matches == SelectSeq(pdf, hit)
         IN  (IF matches = <<>>
              THEN << row @@ [self_text |-> NaN] >>
              ELSE [ k \in 1..Len(matches) |->
                       row @@ [self_text |-> matches[k].self_text] ])
             \o merge_posts(Tail(cdf), pdf)

\* comments_df.merge(comments_df[["comment_id", "body"]], left_on="parent_id",
\*                   right_on="comment_id", how="left", suffixes=("", "_parent"))
RECURSIVE merge_parent(_, _)
merge_parent(cdf, right) ==
    IF cdf = <<>> THEN <<>>
    ELSE LET row     == Head(cdf)
             hit(c)  == c.comment_id = row.parent_id
             matches == SelectSeq(right, hit)
         IN  (IF matches = <<>>
              THEN << row @@ [comment_id_parent |-> NaN, body_parent |-> NaN] >>
              ELSE [ k \in 1..Len(matches) |->
                       row @@ [comment_id_parent |-> matches[k].comment_id,
                               body_parent       |-> matches[k].body] ])
             \o merge_parent(Tail(cdf), right)

\* context that answers the post's text for every row
context_post_only(row) == row.self_text

\* def context(row)
context(row) ==
    IF row.TYPE = "COMMENT" THEN row.self_text ELSE row.body_parent

\* lines 134-172: comments_df with TYPE, self_text and body_parent attached
enrich(pdf, cdf) ==
    IF empty(cdf) THEN cdf
    ELSE LET typed_ids   == astype_ids(cdf)
             post_ids    == { astype_str(pdf[k].post_id) : k \in 1..Len(pdf) }
             comment_ids == { typed_ids[k].comment_id : k \in 1..Len(typed_ids) }
             typed  == [ k \in 1..Len(typed_ids) |->
                           typed_ids[k] @@
                           [TYPE |-> classify(typed_ids[k], post_ids, comment_ids)] ]
             with_post == merge_posts(typed,
                             [ k \in 1..Len(pdf) |->
                                 [ post_id   |-> astype_str(pdf[k].post_id),
                                   self_text |-> pdf[k].self_text ] ])
         IN  merge_parent(with_post, with_post)

\* posts_fmt
posts_fmt(pdf, subreddit_name) ==
    [ k \in 1..Len(pdf) |->
        [ PLATFORM           |-> "Reddit",
          ENTITY             |-> subreddit_name,
          DATE               |-> strftime_day(pdf[k].created_utc),
          TYPE               |-> "POST",
          ID                 |-> astype_str(pdf[k].post_id),
          DESCRIPTION        |-> fillna(pdf[k].self_text),
          PARENT_DESCRIPTION |-> fillna(pdf[k].self_text) ] ]

\* comments_fmt, from the enriched comments_df
comments_fmt(cdf, subreddit_name) ==
    [ k \in 1..Len(cdf) |->
        [ PLATFORM           |-> "Reddit",
          ENTITY             |-> subreddit_name,
          DATE               |-> strftime_day(cdf[k].created_utc),
          TYPE               |-> cdf[k].TYPE,
          ID                 |-> cdf[k].comment_id,
          DESCRIPTION        |-> cdf[k].body,
          PARENT_DESCRIPTION |-> context(cdf[k]) ] ]

\* the value clean_data returns (pd.concat when there are comments)
clean_data(pdf, cdf, subreddit_name) ==
    IF empty(cdf) THEN posts_fmt(pdf, subreddit_name)
    ELSE posts_fmt(pdf, subreddit_name)
         \o comments_fmt(enrich(pdf, cdf), subreddit_name)

-----------------------------------------------------------------------------
(* Inputs of a run *)

Submission(k, selftext, created, score, forest) ==
    [ id          |-> PostId(k),
      selftext    |-> selftext,
      created_utc |-> created,
      score       |-> score,
      forest      |-> forest ]

Days == 0..(NumDays - 1)
Instants == 0..(NumDays * TicksPerDay - 1)

GoodEnv == [ c \in Credentials |-> "x" ]

ConfigOf(name, sd, ed, n) ==
    [ subreddit_name  |-> name,
      start_date      |-> sd,
      end_date        |-> ed,
      top_post_number |-> n ]

Date(d) == [kind |-> "date", day |-> d]
IntValue(n) == [kind |-> "int", val |-> n]

DateValues ==
    { [kind |-> "missing", day |-> 0], [kind |-> "malformed", day |-> 0] }
    \cup { Date(d) : d \in Days }

TopValues ==
    { [kind |-> "missing", val |-> 0], [kind |-> "str", val |-> 0] }
    \cup { IntValue(n) : n \in (-1)..MaxTop }

Chain == [n |-> 2, par |-> <<0, 1>>]

\* the forests vary: one or two posts in the window, all selected
InputsForests ==
    /\ env = GoodEnv
    /\ CONFIG = ConfigOf("python", Date(0), Date(NumDays - 1), IntValue(MaxTop))
    /\ \E f1 \in Forests(MaxNodes), st \in {"", "self_p1"} :
         \/ platform = << Submission(1, st, strptime(1), 2, f1) >>
         \/ \E f2 \in Forests(MaxNodes - 1) :
              platform = << Submission(1, st, strptime(1), 2, f1),
                            Submission(2, "self_p2", strptime(1), 1, f2) >>

\* the dates and scores vary: the window is days 1 .. NumDays-2
InputsPosts ==
    /\ env = GoodEnv
    /\ \E n \in 1..MaxTop :
         CONFIG = ConfigOf("python", Date(1), Date(NumDays - 2), IntValue(n))
    /\ \E m \in 0..MaxPosts :
         \E when \in [1..m -> Instants], score \in [1..m -> 1..MaxScore] :
           platform = [ k \in 1..m |->
                          Submission(k, "self_" \o PostId(k), when[k], score[k], Chain) ]

\* the credentials and config.json vary
InputsConfig ==
    /\ env \in [ Credentials -> {None, "", "x"} ]
    /\ \E name \in {None, "python"}, sd \in DateValues, ed \in DateValues,
          n \in TopValues :
         CONFIG = ConfigOf(name, sd, ed, n)
    /\ platform = << Submission(1, "self_p1", strptime(1), 2, Chain),
                     Submission(2, "", strptime(1) + 1, 1, [n |-> 1, par |-> <<0>>]) >>

Init ==
    /\ \/ InputsForests
       \/ InputsPosts
       \/ InputsConfig
    /\ pc = "main"
    /\ error = None
    /\ start = None
    /\ end = None
    /\ top_idx = 1
    /\ posts = <<>>
    /\ comments = <<>>
    /\ sel_idx = 1
    /\ posts_df = <<>>
    /\ comments_df = <<>>
    /\ final_df = <<>>
    /\ output_file = <<>>
    /\ requests = 0

-----------------------------------------------------------------------------
(* main *)

\* an uncaught exception ends the run
Raise(e) ==
    /\ pc' = "raised"
    /\ error' = e

\* reddit = get_reddit()
GetReddit ==
    /\ pc = "main"
    /\ IF ~all_credentials(env)
       THEN Raise("ValueError: Missing Reddit API credentials")
       ELSE pc' = "fetch_data" /\ error' = error
    /\ UNCHANGED <<env, CONFIG, platform, start, end, top_idx, posts, comments,
                   sel_idx, posts_df, comments_df, final_df, output_file,
                   requests>>

\* fetch_data, lines 84-93: read the config, parse the dates
FetchDataConfig ==
    /\ pc = "fetch_data"
    /\ IF config_error(CONFIG) # None
       THEN /\ Raise(config_error(CONFIG))
            /\ UNCHANGED <<start, end>>
       ELSE /\ start' = strptime(CONFIG.start_date.day)
            /\ end' = strptime(CONFIG.end_date.day)
            /\ pc' = "subreddit_top"
            /\ error' = error
    /\ posts' = <<>>
    /\ comments' = <<>>
    /\ UNCHANGED <<env, CONFIG, platform, top_idx, sel_idx, posts_df,
                   comments_df, final_df, output_file, requests>>

\* line 95: subreddit.top(time_filter="all", limit=None) asks for the listing
SubredditTop ==
    /\ pc = "subreddit_top"
    /\ requests' = requests + 1
    /\ top_idx' = 1
    /\ pc' = "for_submission"
    /\ UNCHANGED <<env, CONFIG, platform, error, start, end, posts, comments,
                   sel_idx, posts_df, comments_df, final_df, output_file>>

\* lines 95-106: one turn of `for submission in subreddit.top(...)`
ForSubmission ==
    /\ pc = "for_submission"
    /\ top_idx <= Len(platform)
    /\ LET submission == platform[top_idx]
           created    == submission.created_utc
       IN  posts' = IF in_range(start, created, end)
                    THEN Append(posts, post_record(submission))
                    ELSE posts
    /\ top_idx' = top_idx + 1
    /\ UNCHANGED <<env, CONFIG, platform, pc, error, start, end, comments,
                   sel_idx, posts_df, comments_df, final_df, output_file,
                   requests>>

\* lines 108-114: after the listing, return empty or keep the top N by score
SelectPosts ==
    /\ pc = "for_submission"
    /\ top_idx > Len(platform)
    /\ IF posts = <<>>
       THEN /\ posts_df' = <<>>
            /\ comments_df' = <<>>
            /\ pc' = "returned"
            /\ UNCHANGED <<error, posts, sel_idx>>
       ELSE IF CONFIG.top_post_number.kind = "missing"
       THEN /\ Raise("KeyError: top_post_number")
            /\ UNCHANGED <<posts, sel_idx, posts_df, comments_df>>
       ELSE IF CONFIG.top_post_number.kind = "str"
       THEN /\ Raise("TypeError: slice indices must be integers")
            /\ UNCHANGED <<posts, sel_idx, posts_df, comments_df>>
       ELSE /\ posts' = select_top(posts, CONFIG.top_post_number.val)
            /\ sel_idx' = 1
            /\ pc' = "for_post"
            /\ UNCHANGED <<error, posts_df, comments_df>>
    /\ UNCHANGED <<env, CONFIG, platform, start, end, top_idx, comments,
                   final_df, output_file, requests>>

\* lines 116-118: one turn of `for post in posts`
ForPost ==
    /\ pc = "for_post"
    /\ sel_idx <= Len(posts)
    /\ LET submission == RedditSubmission(posts[sel_idx].post_id)
       IN  comments' = comments \o fetch_comments(submission)
    /\ requests' = requests + 1
    /\ sel_idx' = sel_idx + 1
    /\ UNCHANGED <<env, CONFIG, platform, pc, error, start, end, top_idx, posts,
                   posts_df, comments_df, final_df, output_file>>

\* line 120: return pd.DataFrame(posts), pd.DataFrame(comments)
FetchDataReturn ==
    /\ pc = "for_post"
    /\ sel_idx > Len(posts)
    /\ posts_df' = posts
    /\ comments_df' = comments
    /\ pc' = "returned"
    /\ UNCHANGED <<env, CONFIG, platform, error, start, end, top_idx, posts,
                   comments, sel_idx, final_df, output_file, requests>>

\* main, lines 210-214
MainCheck ==
    /\ pc = "returned"
    /\ IF empty(posts_df)
       THEN Raise("ValueError: No posts found")
       ELSE pc' = "clean_data" /\ error' = error
    /\ UNCHANGED <<env, CONFIG, platform, start, end, top_idx, posts, comments,
                   sel_idx, posts_df, comments_df, final_df, output_file,
                   requests>>

\* final_df = clean_data(posts_df, comments_df)
CleanData ==
    /\ pc = "clean_data"
    /\ IF empty(posts_df)
       THEN /\ Raise("ValueError: No posts available to clean")
            /\ UNCHANGED <<comments_df, final_df>>
       ELSE /\ comments_df' = enrich(posts_df, comments_df)
            /\ final_df' = clean_data(posts_df, comments_df, CONFIG.subreddit_name)
            /\ pc' = "to_excel"
            /\ error' = error
    /\ UNCHANGED <<env, CONFIG, platform, start, end, top_idx, posts, comments,
                   sel_idx, posts_df, output_file, requests>>

\* main, lines 218-225: final_df.to_excel(output_file, index=False)
ToExcel ==
    /\ pc = "to_excel"
    /\ output_file' =
         << [ name |-> << CONFIG.subreddit_name, "cleaned",
                          CONFIG.start_date.day, CONFIG.end_date.day >>,
              rows |-> final_df ] >>
    /\ pc' = "done"
    /\ UNCHANGED <<env, CONFIG, platform, error, start, end, top_idx, posts,
                   comments, sel_idx, posts_df, comments_df, final_df, requests>>

Next ==
    \/ GetReddit
    \/ FetchDataConfig
    \/ SubredditTop
    \/ ForSubmission
    \/ SelectPosts
    \/ ForPost
    \/ FetchDataReturn
    \/ MainCheck
    \/ CleanData
    \/ ToExcel

Spec == Init /\ [][Next]_vars

-----------------------------------------------------------------------------
(* Vocabulary of the properties *)

Range(seq) == { seq[k] : k \in 1..Len(seq) }

\* the posts whose comments fetch_data has fetched so far
FetchedPosts == { posts[k] : k \in 1..(sel_idx - 1) }

\* the platform's submission a post record was made from
SubmissionOf(post_id) == RedditSubmission(post_id)

\* the records fetch_comments emitted for one post, in order
RecordsOf(post_id) ==
    LET mine(r) == r.post_id = post_id
    IN  SelectSeq(comments, mine)

\* the nodes of a submission's forest, and the structure of the forest
Nodes(sub) == 1..sub.forest.n
ParentOf(sub, i) == sub.forest.par[i]

RECURSIVE IsAncestor(_, _, _)
IsAncestor(sub, a, b) ==
    /\ ParentOf(sub, b) # 0
    /\ \/ ParentOf(sub, b) = a
       \/ IsAncestor(sub, a, ParentOf(sub, b))

Subtree(sub, a) == {a} \cup { b \in Nodes(sub) : IsAncestor(sub, a, b) }

\* the calendar-day reading of the window [start_date, end_date]
InWindowByDay(created) ==
    /\ CONFIG.start_date.day <= strftime_day(created)
    /\ strftime_day(created) <= CONFIG.end_date.day

\* clean_data has returned: comments_df holds the enriched rows and
\* final_df[Len(posts_df) + k] is the output row of comments_df[k]
Cleaned == pc \in {"to_excel", "done"}
OutputRow(k) == final_df[Len(posts_df) + k]
SelectedIds == { posts_df[k].post_id : k \in 1..Len(posts_df) }
BatchIds == { comments[k].comment_id : k \in 1..Len(comments) }
PostBody(post_id) ==
    (CHOOSE p \in Range(posts_df) : p.post_id = post_id).self_text
CommentBody(comment_id) ==
    (CHOOSE c \in Range(comments) : c.comment_id = comment_id).body

-----------------------------------------------------------------------------
(* Thread flattener *)

\* C3: every record fetch_comments emits carries as parent_id the comment_id
\* of the node's structural parent when the node is nested, and the owning
\* post's post_id when the node is a root of the forest.
C3_ParentLinkage ==
    \A p \in FetchedPosts :
      LET sub  == SubmissionOf(p.post_id)
          recs == RecordsOf(p.post_id)
      IN  \A k \in 1..Len(recs), i \in Nodes(sub) :
            recs[k].comment_id = CommentId(sub.id, i) =>
              recs[k].parent_id =
                IF ParentOf(sub, i) = 0 THEN sub.id
                ELSE CommentId(sub.id, ParentOf(sub, i))

\* C7: in the records of one submission an ancestor's record comes before
\* the record of each of its descendants, and of two sibling subtrees the
\* earlier sibling's whole subtree comes before the later sibling's.
C7_PreOrder ==
    \A p \in FetchedPosts :
      LET sub  == SubmissionOf(p.post_id)
          recs == RecordsOf(p.post_id)
          At(k, i) == recs[k].comment_id = CommentId(sub.id, i)
      IN  /\ \A a \in Nodes(sub), b \in Nodes(sub) :
               \A k \in 1..Len(recs), l \in 1..Len(recs) :
                 /\ (IsAncestor(sub, a, b) /\ At(k, a) /\ At(l, b)) => k < l
                 /\ (a < b /\ ParentOf(sub, a) = ParentOf(sub, b)) =>
                      \A x \in Subtree(sub, a), y \in Subtree(sub, b) :
                        (At(k, x) /\ At(l, y)) => k < l
          /\ \A i \in Nodes(sub) : \E k \in 1..Len(recs) : At(k, i)

\* a submission whose pre-order differs from the order of its node numbers
\* and that has a chain of three nodes has been flattened
C7_Witness ==
    /\ pc = "done"
    /\ \E p \in FetchedPosts :
         LET sub == SubmissionOf(p.post_id)
         IN  /\ sub.forest.n >= 4
             /\ \E a, b, c \in Nodes(sub) :
                  /\ IsAncestor(sub, a, b) /\ IsAncestor(sub, b, c)
             /\ \E a, b \in Nodes(sub) :
                  /\ a < b
                  /\ ParentOf(sub, a) = ParentOf(sub, b)
                  /\ Subtree(sub, a) # {a}

\* C8: for a forest of K nodes fetch_comments emits exactly K records, and
\* every node id occurs among the emitted comment_ids exactly once.
C8_FlattenComplete ==
    \A p \in FetchedPosts :
      LET sub  == SubmissionOf(p.post_id)
          recs == RecordsOf(p.post_id)
      IN  /\ Len(recs) = sub.forest.n
          /\ \A i \in Nodes(sub) :
               Cardinality({ k \in 1..Len(recs) :
                               recs[k].comment_id = CommentId(sub.id, i) }) = 1

\* a forest of the largest size, with nested replies, has been flattened
C8_Witness ==
    /\ pc = "done"
    /\ \E p \in FetchedPosts :
         LET sub == SubmissionOf(p.post_id)
         IN  /\ sub.forest.n = MaxNodes
             /\ \E i \in Nodes(sub) : ParentOf(sub, i) # 0
             /\ Len(RecordsOf(p.post_id)) = MaxNodes

-----------------------------------------------------------------------------
(* Role classifier and context linker *)

\* a row whose parent_id is neither a selected post nor a comment of the batch
Orphan(row) == row.parent_id \notin SelectedIds /\ row.parent_id \notin BatchIds

\* C1: a classified comment has TYPE COMMENT if and only if its parent_id is
\* the id of a selected post; every other comment, whose parent_id is a
\* comment id of the batch, has TYPE REPLY.
C1_Classification ==
    Cleaned =>
      \A k \in 1..Len(comments_df) :
        /\ OutputRow(k).TYPE = "COMMENT" <=> comments_df[k].parent_id \in SelectedIds
        /\ (comments_df[k].parent_id \notin SelectedIds
            /\ comments_df[k].parent_id \in BatchIds) => OutputRow(k).TYPE = "REPLY"

\* C2: a COMMENT row whose parent is post P (by parent_id, or as a top-level
\* comment of P) has P's self_text as PARENT_DESCRIPTION; a REPLY row whose
\* parent comment C is in the batch has C's body as PARENT_DESCRIPTION, and
\* not the body of another comment nor the text of the post.
C2_SingleHopContext ==
    Cleaned =>
      /\ Len(final_df) = Len(posts_df) + Len(comments_df)
      /\ \A k \in 1..Len(comments_df) :
           LET row == comments_df[k]
               out == OutputRow(k)
               sub == SubmissionOf(row.post_id)
           IN  /\ out.ID = row.comment_id
               /\ (out.TYPE = "COMMENT" /\ row.parent_id \in SelectedIds) =>
                    out.PARENT_DESCRIPTION = PostBody(row.parent_id)
               /\ (out.TYPE = "COMMENT"
                   /\ \E i \in Nodes(sub) : /\ row.comment_id = CommentId(sub.id, i)
                                            /\ ParentOf(sub, i) = 0) =>
                    out.PARENT_DESCRIPTION = PostBody(sub.id)
               /\ (out.TYPE = "REPLY" /\ row.parent_id \in BatchIds) =>
                    /\ out.PARENT_DESCRIPTION = CommentBody(row.parent_id)
                    /\ out.PARENT_DESCRIPTION # PostBody(row.post_id)
                    /\ \A c \in Range(comments) :
                         c.comment_id # row.parent_id =>
                           out.PARENT_DESCRIPTION # c.body

\* the output holds a REPLY to a REPLY (a grandparent exists) next to a
\* top-level comment of a post with a text
C2_Witness ==
    /\ pc = "done"
    /\ \E k, l, m \in 1..Len(comments_df) :
         /\ OutputRow(k).TYPE = "REPLY"
         /\ comments_df[k].parent_id = comments_df[l].comment_id
         /\ OutputRow(l).TYPE = "REPLY"
         /\ comments_df[l].parent_id = comments_df[m].comment_id
         /\ OutputRow(m).TYPE = "COMMENT"
         /\ OutputRow(m).PARENT_DESCRIPTION = "self_p1"

-----------------------------------------------------------------------------
(* Post selector *)

\* the selection of line 112 has been made (or fetch_data returned empty)
Selected == pc \in {"for_post", "returned", "clean_data", "to_excel", "done"}

\* C5: a submission passes the date filter exactly when the calendar day of
\* its created_utc lies between start_date and end_date, both included.
C5_ClosedDayWindow ==
    pc = "for_submission" =>
      \A k \in 1..(top_idx - 1) :
        post_record(platform[k]) \in Range(posts)
          <=> InWindowByDay(platform[k].created_utc)

\* C6: for a positive top_post_number at most that many posts are selected,
\* each created within [start_date, end_date], and no in-window post left
\* out has a score above the score of a selected post.
C6_SelectionBound ==
    (Selected /\ CONFIG.top_post_number.kind = "int"
              /\ CONFIG.top_post_number.val >= 1) =>
      /\ Len(posts) <= CONFIG.top_post_number.val
      /\ \A p \in Range(posts) : InWindowByDay(p.created_utc)
      /\ \A k \in 1..Len(platform) :
           (/\ InWindowByDay(platform[k].created_utc)
            /\ post_record(platform[k]) \notin Range(posts)) =>
             \A sel \in Range(posts) : platform[k].score <= sel.score

-----------------------------------------------------------------------------
(* Errors *)

\* the listing has been read to its end
ListingRead == requests >= 1 /\ pc # "for_submission"

NoPostInWindow ==
    \A k \in 1..Len(platform) : ~InWindowByDay(platform[k].created_utc)

\* C9: when every fetched post is outside the window the run goes to the
\* "No posts found" error with no comments fetched, nothing formatted and no
\* file written; a file is written only when a post was selected.
C9_NoPostsInWindow ==
    /\ (ListingRead /\ NoPostInWindow) =>
         /\ pc \in {"returned", "raised"}
         /\ pc = "raised" => error = "ValueError: No posts found"
         /\ empty(posts_df)
         /\ comments = <<>>
         /\ requests = 1
         /\ final_df = <<>>
         /\ output_file = <<>>
    /\ output_file # <<>> =>
         /\ Len(posts_df) >= 1
         /\ posts_df = posts
         /\ \A k \in 1..Len(posts_df) : output_file[1].rows[k].TYPE = "POST"

\* the run of a listing whose posts all lie outside the window has ended
C9_Witness ==
    /\ pc = "raised"
    /\ error = "ValueError: No posts found"
    /\ Len(platform) >= 2
    /\ NoPostInWindow
    /\ requests = 1

BadConfiguration ==
    \/ ~all_credentials(env)
    \/ CONFIG.subreddit_name = None
    \/ CONFIG.start_date.kind # "date"
    \/ CONFIG.end_date.kind # "date"
    \/ CONFIG.top_post_number.kind # "int"
    \/ CONFIG.top_post_number.val < 1

\* C10: in a run with a missing credential or a missing or invalid config
\* field no request reaches the platform and no file is written: the run
\* can only end raised.
C10_ConfigErrorsFirst ==
    BadConfiguration =>
      /\ requests = 0
      /\ output_file = <<>>
      /\ pc # "done"

====
